---- MODULE Spec2Model ----
(***************************************************************************)
(* geochemistrypy/model/clustering.py: one clustering workflow instance,   *)
(* the feature tables its caller owns, and the calls the instance makes.   *)
(*                                                                         *)
(* A hyperparameter value is a string (the Python literal), a table is a   *)
(* row count plus an ordered list of named columns, and the scikit-learn   *)
(* estimator is the record of what it was built with and of the            *)
(* attributes fit() leaves on it.                                          *)
(***************************************************************************)
EXTENDS Integers, Sequences, FiniteSets

VARIABLES
    self,    \* the workflow instance: cls, naming, hp, model, X
    tables,  \* the caller's DataFrames, by identity (self.X aliases one)
    args,    \* the arguments the constructor was called with
    last,    \* the last call on the instance: what it was and how it ended
    trace    \* the collaborator calls the last call made, in order

vars == <<self, tables, args, last, trace>>

-----------------------------------------------------------------------------
(* Bounds *)

\* rows of the larger caller table
MaxRows == 2
\* components_num ranges over 0 .. MaxComponents (or is not passed)
MaxComponents == 4

-----------------------------------------------------------------------------
(* Classes and hyperparameters *)

Implemented == {"KMeans", "DBSCAN", "AffinityPropagation"}

Placeholders ==
    {"MeanShift", "Spectral", "WardHierarchical", "Agglomerative", "OPTICS",
     "GaussianMixtures", "BIRCHClustering", "BisectingKMeans"}

NoInstance == "<no instance>"

KMeansDefaults ==
    [n_clusters |-> "8", init |-> "k-means++", n_init |-> "10",
     max_iter |-> "300", tol |-> "1e-4", verbose |-> "0",
     random_state |-> "None", copy_x |-> "True", algorithm |-> "auto"]

DBSCANDefaults ==
    [eps |-> "0.5", min_samples |-> "5", metric |-> "euclidean",
     metric_params |-> "None", algorithm |-> "auto", leaf_size |-> "30",
     p |-> "None", n_jobs |-> "None"]

AffinityPropagationDefaults ==
    [damping |-> "0.5", max_iter |-> "200", convergence_iter |-> "15",
     copy |-> "True", preference |-> "None", affinity |-> "euclidean",
     verbose |-> "False", random_state |-> "None"]

NoArgs == [x \in {} |-> "None"]

Defaults(c) ==
    CASE c = "KMeans" -> KMeansDefaults
      [] c = "DBSCAN" -> DBSCANDefaults
      [] c = "AffinityPropagation" -> AffinityPropagationDefaults
      [] OTHER -> NoArgs

\* a value a caller may pass instead of the default
Custom(c) ==
    CASE c = "KMeans" ->
           [n_clusters |-> "3", init |-> "random", n_init |-> "5",
            max_iter |-> "100", tol |-> "1e-3", verbose |-> "1",
            random_state |-> "42", copy_x |-> "False", algorithm |-> "elkan"]
      [] c = "DBSCAN" ->
           [eps |-> "0.3", min_samples |-> "10", metric |-> "manhattan",
            metric_params |-> "{}", algorithm |-> "kd_tree", leaf_size |-> "40",
            p |-> "1", n_jobs |-> "-1"]
      [] c = "AffinityPropagation" ->
           [damping |-> "0.9", max_iter |-> "500", convergence_iter |-> "30",
            copy |-> "False", preference |-> "-50", affinity |-> "precomputed",
            verbose |-> "True", random_state |-> "42"]
      [] OTHER -> NoArgs

\* the call of c's constructor that passes Custom for the parameters in S
ArgsOverriding(c, S) ==
    [p \in DOMAIN Defaults(c) |-> IF p \in S THEN Custom(c)[p] ELSE Defaults(c)[p]]

\* every call of c's constructor: each parameter left default or overridden
AllArgs(c) ==
    {ArgsOverriding(c, S) : S \in SUBSET DOMAIN Defaults(c)}

\* the two extreme calls: every default kept, every default overridden
ExtremeArgs(c) ==
    {ArgsOverriding(c, {}), ArgsOverriding(c, DOMAIN Defaults(c))}

-----------------------------------------------------------------------------
(* Feature tables (pandas DataFrames) *)

ClusteringResult == "clustering result"

NoX == 0
TableIds == {1, 2}

Column(name, vals) == [name |-> name, vals |-> vals]

\* the two tables the caller holds: one of MaxRows rows and two features,
\* one of a single row and one feature
CallerTables ==
    [i \in TableIds |->
        IF i = 1
        THEN [rows |-> MaxRows,
              cols |-> <<Column("f1", [r \in 1..MaxRows |-> r]),
                         Column("f2", [r \in 1..MaxRows |-> r + 1])>>]
        ELSE [rows |-> 1, cols |-> <<Column("f1", <<5>>)>>]]

NoTable == [rows |-> 0, cols |-> <<>>]

ColNames(t) == [i \in 1..Len(t.cols) |-> t.cols[i].name]

HasColumn(t, name) == \E i \in 1..Len(t.cols) : t.cols[i].name = name

ColumnOf(t, name) ==
    t.cols[CHOOSE i \in 1..Len(t.cols) : t.cols[i].name = name].vals

\* the columns of t other than the one named
OtherColumns(t, name) == SelectSeq(t.cols, LAMBDA c : c.name # name)

\* DataFrame.__setitem__ with an array: the lengths must agree; an existing
\* column is overwritten in place, a new one is appended
SetItemFits(t, vals) == Len(vals) = t.rows

SetItem(t, name, vals) ==
    IF HasColumn(t, name)
    THEN [t EXCEPT !.cols =
            [i \in 1..Len(t.cols) |->
                IF t.cols[i].name = name THEN Column(name, vals) ELSE t.cols[i]]]
    ELSE [t EXCEPT !.cols = Append(t.cols, Column(name, vals))]

-----------------------------------------------------------------------------
(* The scikit-learn estimator held in self.model *)

\* WorkflowBase.__init__ assigns no estimator: self.model is either not an
\* attribute at all or is None
Unset == {"<absent>", "<None>"}

\* two cluster labels are enough to tell one labelling from another
Labels == {0, 1}
LabelVectors(n) == [1..n -> Labels]

Estimator(kind, built) ==
    [kind |-> kind, id |-> 1, built |-> built, attrs |-> {},
     labels_ |-> <<>>, fit_cols |-> <<>>]

NoEstimator(how) == Estimator(how, NoArgs)

\* the attributes a successful fit leaves on an estimator of this kind
FittedAttrs(kind) ==
    CASE kind = "KMeans" -> {"labels_", "cluster_centers_", "inertia_"}
      [] kind = "DBSCAN" -> {"labels_", "core_sample_indices_", "components_"}
      [] kind = "AffinityPropagation" ->
           {"labels_", "cluster_centers_", "cluster_centers_indices_"}
      [] OTHER -> {}

\* estimator.fit(X) returning normally, with the labels it computed
EstimatorFit(m, t, labels) ==
    [m EXCEPT !.attrs = FittedAttrs(m.kind), !.labels_ = labels,
              !.fit_cols = ColNames(t)]

-----------------------------------------------------------------------------
(* Constructors *)

\* ClusteringWorkflowBase.__init__ alone, as a placeholder class runs it: a
\* name and nothing else; `how` is what WorkflowBase leaves in self.model
ClusteringWorkflowBase_init(c, how) ==
    [cls |-> c, naming |-> "<unset>", hp |-> NoArgs,
     model |-> NoEstimator(how), X |-> NoX]

KMeansClustering_init(a) ==
    LET hp == [n_clusters |-> a.n_clusters, init |-> a.init,
               max_iter |-> a.max_iter, tol |-> a.tol, n_init |-> a.n_init,
               verbose |-> a.verbose, random_state |-> a.random_state,
               copy_x |-> a.copy_x, algorithm |-> a.algorithm]
    IN [cls |-> "KMeans", naming |-> "KMeans", hp |-> hp,
        model |-> Estimator("KMeans",
                    [n_clusters |-> hp.n_clusters, init |-> hp.init,
                     n_init |-> hp.n_init, max_iter |-> hp.max_iter,
                     tol |-> hp.tol, verbose |-> hp.verbose,
                     random_state |-> hp.random_state, copy_x |-> hp.copy_x,
                     algorithm |-> hp.algorithm]),
        X |-> NoX]

DBSCANClustering_init(a) ==
    LET hp == [eps |-> a.eps, min_samples |-> a.min_samples,
               metric |-> a.metric, metric_params |-> a.metric_params,
               algorithm |-> a.algorithm, leaf_size |-> a.leaf_size,
               p |-> a.p, n_jobs |-> a.n_jobs]
    IN [cls |-> "DBSCAN", naming |-> "DBSCAN", hp |-> hp,
        model |-> Estimator("DBSCAN",
                    [eps |-> hp.eps, min_samples |-> hp.min_samples,
                     metric |-> hp.metric, metric_params |-> hp.metric_params,
                     algorithm |-> hp.algorithm, leaf_size |-> hp.leaf_size,
                     p |-> hp.p, n_jobs |-> hp.n_jobs]),
        X |-> NoX]

\* (mutant) the estimator is given self.preference, self.affinity,
\* self.verbose and self.random_state
AffinityPropagationClustering_init_forwarding(a) ==
    LET hp == [damping |-> a.damping, max_iter |-> a.max_iter,
               convergence_iter |-> a.convergence_iter, copy |-> a.copy,
               verbose |-> a.verbose, preference |-> a.preference,
               affinity |-> a.affinity, random_state |-> a.random_state]
    IN [cls |-> "AffinityPropagation", naming |-> "AffinityPropagation",
        hp |-> hp,
        model |-> Estimator("AffinityPropagation",
                    [damping |-> hp.damping, max_iter |-> hp.max_iter,
                     convergence_iter |-> hp.convergence_iter,
                     copy |-> hp.copy, preference |-> hp.preference,
                     affinity |-> hp.affinity, verbose |-> hp.verbose,
                     random_state |-> hp.random_state]),
        X |-> NoX]

\* the last four keyword arguments of AffinityPropagation(...) are literals
AffinityPropagationClustering_init(a) ==
    LET hp == [damping |-> a.damping, max_iter |-> a.max_iter,
               convergence_iter |-> a.convergence_iter, copy |-> a.copy,
               verbose |-> a.verbose, preference |-> a.preference,
               affinity |-> a.affinity, random_state |-> a.random_state]
    IN [cls |-> "AffinityPropagation", naming |-> "AffinityPropagation",
        hp |-> hp,
        model |-> Estimator("AffinityPropagation",
                    [damping |-> hp.damping, max_iter |-> hp.max_iter,
                     convergence_iter |-> hp.convergence_iter,
                     copy |-> hp.copy, preference |-> "None",
                     affinity |-> "euclidean", verbose |-> "False",
                     random_state |-> "None"]),
        X |-> NoX]

New(c, a) ==
    CASE c = "KMeans" -> KMeansClustering_init(a)
      [] c = "DBSCAN" -> DBSCANClustering_init(a)
      [] c = "AffinityPropagation" -> AffinityPropagationClustering_init(a)

-----------------------------------------------------------------------------
(* How a call ends *)

Return(s, tbls, value, calls) ==
    [self |-> s, tables |-> tbls, outcome |-> "returned", by |-> "",
     value |-> value, trace |-> calls]

\* `by` is the object the exception comes from: "instance" (self has no such
\* attribute), "NoneType" (self.model is None), "estimator", "table"
\* (pandas), "kwargs" (the keyword dictionary)
Raise(s, tbls, error, by, calls) ==
    [self |-> s, tables |-> tbls, outcome |-> error, by |-> by,
     value |-> "", trace |-> calls]

\* looking up self.model.<name> when self.model is no estimator
NoModelError(s, tbls) ==
    IF s.model.kind = "<absent>"
    THEN Raise(s, tbls, "AttributeError", "instance", <<>>)
    ELSE Raise(s, tbls, "AttributeError", "NoneType", <<>>)

Call(fn, cols, labels, a) ==
    [fn |-> fn, cols |-> cols, labels |-> labels, args |-> a]

-----------------------------------------------------------------------------
(* ClusteringWorkflowBase *)

\* (mutant) fit returns quietly when there is no estimator to fit
fit_guarded(s, tbls, Xid, ok, labels) ==
    LET s1 == [s EXCEPT !.X = Xid] IN
    IF s1.model.kind \in Unset THEN Return(s1, tbls, "None", <<>>)
    ELSE IF ~ok THEN Raise(s1, tbls, "Exception", "estimator", <<>>)
    ELSE Return([s1 EXCEPT !.model = EstimatorFit(s1.model, tbls[Xid], labels)],
                tbls, "None", <<>>)

\* (mutant) fit replaces self.model by a fresh copy before fitting it
fit_cloning(s, tbls, Xid, ok, labels) ==
    LET s1 == [s EXCEPT !.X = Xid, !.model.id = @ + 1] IN
    IF s1.model.kind \in Unset THEN NoModelError(s1, tbls)
    ELSE IF ~ok THEN Raise(s1, tbls, "Exception", "estimator", <<>>)
    ELSE Return([s1 EXCEPT !.model = EstimatorFit(s1.model, tbls[Xid], labels)],
                tbls, "None", <<>>)

\* fit: self.X = X comes first, so X is stored even when the estimator is
\* missing or raises; `ok` is whether estimator.fit(X) returns
fit(s, tbls, Xid, ok, labels) ==
    LET s1 == [s EXCEPT !.X = Xid] IN
    IF s1.model.kind \in Unset THEN NoModelError(s1, tbls)
    ELSE IF ~ok THEN Raise(s1, tbls, "Exception", "estimator", <<>>)
    ELSE Return([s1 EXCEPT !.model = EstimatorFit(s1.model, tbls[Xid], labels)],
                tbls, "None", <<>>)

NoCenters == "This class don not have cluster_centers_"

\* (mutant) self.model.cluster_centers_, with no default
get_cluster_centers_strict(s, tbls) ==
    IF s.model.kind \in Unset THEN NoModelError(s, tbls)
    ELSE IF "cluster_centers_" \in s.model.attrs
    THEN Return(s, tbls, "cluster_centers_", <<>>)
    ELSE Raise(s, tbls, "AttributeError", "estimator", <<>>)

\* getattr(self.model, 'cluster_centers_', NoCenters)
get_cluster_centers(s, tbls) ==
    IF s.model.kind = "<absent>"
    THEN Raise(s, tbls, "AttributeError", "instance", <<>>)
    ELSE IF "cluster_centers_" \in s.model.attrs
    THEN Return(s, tbls, "cluster_centers_", <<>>)
    ELSE Return(s, tbls, NoCenters, <<>>)

\* (mutant) the labels are appended as one more column every time
get_labels_appending(s, tbls) ==
    IF s.model.kind \in Unset THEN NoModelError(s, tbls)
    ELSE IF "labels_" \notin s.model.attrs
    THEN Raise(s, tbls, "AttributeError", "estimator", <<>>)
    ELSE IF s.X = NoX
    THEN Raise(s, tbls, "AttributeError", "instance", <<>>)
    ELSE IF ~SetItemFits(tbls[s.X], s.model.labels_)
    THEN Raise(s, tbls, "ValueError", "table", <<>>)
    ELSE LET t == [tbls[s.X] EXCEPT !.cols =
                      Append(@, Column(ClusteringResult, s.model.labels_))]
         IN Return(s, [tbls EXCEPT ![s.X] = t], "None",
                   <<Call("save_data", ColNames(t), s.model.labels_,
                          <<s.naming, "DATASET_OUTPUT_PATH">>)>>)

\* (mutant) self.X is looked up before self.model.labels_
get_labels_table_first(s, tbls) ==
    IF s.X = NoX
    THEN Raise(s, tbls, "AttributeError", "instance", <<>>)
    ELSE IF s.model.kind \in Unset THEN NoModelError(s, tbls)
    ELSE IF "labels_" \notin s.model.attrs
    THEN Raise(s, tbls, "AttributeError", "estimator", <<>>)
    ELSE IF ~SetItemFits(tbls[s.X], s.model.labels_)
    THEN Raise(s, tbls, "ValueError", "table", <<>>)
    ELSE LET t == SetItem(tbls[s.X], ClusteringResult, s.model.labels_) IN
         Return(s, [tbls EXCEPT ![s.X] = t], "None",
                <<Call("save_data", ColNames(t), s.model.labels_,
                       <<s.naming, "DATASET_OUTPUT_PATH">>)>>)

\* self.X['clustering result'] = self.model.labels_ evaluates the right-hand
\* side first, then self.X, then stores; save_data follows
get_labels(s, tbls) ==
    IF s.model.kind \in Unset THEN NoModelError(s, tbls)
    ELSE IF "labels_" \notin s.model.attrs
    THEN Raise(s, tbls, "AttributeError", "estimator", <<>>)
    ELSE IF s.X = NoX
    THEN Raise(s, tbls, "AttributeError", "instance", <<>>)
    ELSE IF ~SetItemFits(tbls[s.X], s.model.labels_)
    THEN Raise(s, tbls, "ValueError", "table", <<>>)
    ELSE LET t == SetItem(tbls[s.X], ClusteringResult, s.model.labels_) IN
         Return(s, [tbls EXCEPT ![s.X] = t], "None",
                <<Call("save_data", ColNames(t), s.model.labels_,
                       <<s.naming, "DATASET_OUTPUT_PATH">>)>>)

-----------------------------------------------------------------------------
(* KMeansClustering *)

\* components_num was not among the keyword arguments
NoKw == -1

ImagePath == "MODEL_OUTPUT_IMAGE_PATH"

\* _get_scores reads model.inertia_, then hands self.X and model.labels_ to
\* both metrics
_get_scores(s, tbls) ==
    IF "inertia_" \notin s.model.attrs
    THEN Raise(s, tbls, "AttributeError", "estimator", <<>>)
    ELSE IF s.X = NoX
    THEN Raise(s, tbls, "AttributeError", "instance", <<>>)
    ELSE Return(s, tbls, "None",
           <<Call("calinski_harabasz_score", ColNames(tbls[s.X]),
                  s.model.labels_, <<>>),
             Call("silhouette_score", ColNames(tbls[s.X]),
                  s.model.labels_, <<>>)>>)

_plot_silhouette_diagram(data, cluster_labels, cluster_centers_, n_clusters, algorithm_name, store_path) ==
    <<Call("plot_silhouette_diagram", ColNames(data), cluster_labels,
           <<cluster_centers_, n_clusters, algorithm_name>>),
      Call("save_fig", <<>>, <<>>,
           <<"Silhouette Diagram - ", algorithm_name, store_path>>)>>

_scatter2d(data, cluster_labels, algorithm_name, store_path) ==
    <<Call("scatter2d", ColNames(data), cluster_labels, <<algorithm_name>>),
      Call("save_fig", <<>>, <<>>, <<"Bi-plot - ", algorithm_name, store_path>>)>>

\* (mutant) the 3D plot is saved like the other two
_scatter3d_saving ==
    <<Call("scatter3d", <<>>, <<>>, <<>>),
      Call("save_fig", <<>>, <<>>,
           <<"Tri-plot - ", "KMeans", "MODEL_OUTPUT_IMAGE_PATH">>)>>

\* scatter3d() is called with no argument and nothing is saved
_scatter3d == <<Call("scatter3d", <<>>, <<>>, <<>>)>>

\* (mutant) the first branch, for more than three components, draws nothing
ScatterFor_only_three(s, t, n) ==
    IF n > 3 THEN <<>>
    ELSE IF n = 3 THEN <<Call("scatter3d", <<>>, <<>>, <<>>)>>
    ELSE IF n = 2
    THEN <<Call("scatter2d", ColNames(t), ColumnOf(t, ClusteringResult),
                <<s.naming>>),
           Call("save_fig", <<>>, <<>>,
                <<"Bi-plot - ", s.naming, "MODEL_OUTPUT_IMAGE_PATH">>)>>
    ELSE <<>>

\* the branch on kwargs['components_num']
ScatterFor(s, t, n) ==
    IF n > 3 THEN _scatter3d
    ELSE IF n = 3 THEN _scatter3d
    ELSE IF n = 2
    THEN _scatter2d(t, ColumnOf(t, ClusteringResult), s.naming, ImagePath)
    ELSE <<>>

KMeansClustering_special_components(s, tbls, n) ==
    LET scores == _get_scores(s, tbls) IN
    IF scores.outcome # "returned" THEN scores
    ELSE LET t == tbls[s.X] IN
    IF ~HasColumn(t, ClusteringResult)
    THEN Raise(s, tbls, "KeyError", "table", scores.trace)
    ELSE LET centers == get_cluster_centers(s, tbls)
             diagram == scores.trace \o
                 _plot_silhouette_diagram(t, ColumnOf(t, ClusteringResult),
                     centers.value, s.hp.n_clusters, s.naming, ImagePath)
         IN
    IF n = NoKw THEN Raise(s, tbls, "KeyError", "kwargs", diagram)
    ELSE Return(s, tbls, "None", diagram \o ScatterFor(s, t, n))

-----------------------------------------------------------------------------
(* DBSCANClustering *)

clustering_result_plot(X, trained_model, algorithm_name, store_path) ==
    <<Call("dbscan_result_plot", ColNames(X), trained_model.labels_,
           <<algorithm_name>>),
      Call("save_fig", <<>>, <<>>,
           <<"Plot - ", algorithm_name, " - 2D", store_path>>)>>

\* the keyword arguments are not looked at
DBSCANClustering_special_components(s, tbls, n) ==
    IF s.X = NoX THEN Raise(s, tbls, "AttributeError", "instance", <<>>)
    ELSE Return(s, tbls, "None",
                clustering_result_plot(tbls[s.X], s.model, s.naming, ImagePath))

-----------------------------------------------------------------------------
(* The calls a program makes on one instance *)

NoCall ==
    [op |-> "", arg |-> 0, outcome |-> "", by |-> "", value |-> "",
     pre |-> [X |-> NoX, table |-> NoTable, model |-> NoEstimator("<absent>")]]

Init ==
    /\ self = ClusteringWorkflowBase_init(NoInstance, "<absent>")
    /\ tables = CallerTables
    /\ args = NoArgs
    /\ last = NoCall
    /\ trace = <<>>

Constructed == self.cls # NoInstance

\* what the instance looks like as the call starts
Pre ==
    [X |-> self.X,
     table |-> IF self.X = NoX THEN NoTable ELSE tables[self.X],
     model |-> self.model]

Apply(op, arg, r) ==
    /\ self' = r.self
    /\ tables' = r.tables
    /\ trace' = r.trace
    /\ last' = [op |-> op, arg |-> arg, outcome |-> r.outcome, by |-> r.by,
                value |-> r.value, pre |-> Pre]
    /\ UNCHANGED args

Created(s, a) ==
    /\ self' = s
    /\ args' = a
    /\ last' = [NoCall EXCEPT !.op = "__init__", !.outcome = "returned"]
    /\ UNCHANGED <<tables, trace>>

\* an implemented class, with all defaults or with none
Construct ==
    /\ ~Constructed
    /\ \E c \in Implemented : \E a \in ExtremeArgs(c) : Created(New(c, a), a)

\* an implemented class, with any arguments
ConstructAny ==
    /\ ~Constructed
    /\ \E c \in Implemented : \E a \in AllArgs(c) : Created(New(c, a), a)

ConstructPlaceholder ==
    /\ ~Constructed
    /\ \E c \in Placeholders : \E how \in Unset :
          Created(ClusteringWorkflowBase_init(c, how), NoArgs)

Fit ==
    /\ Constructed
    /\ \E Xid \in TableIds : \E ok \in BOOLEAN :
       \E labels \in (IF ok THEN LabelVectors(tables[Xid].rows) ELSE {<<>>}) :
          Apply("fit", Xid, fit(self, tables, Xid, ok, labels))

GetClusterCenters ==
    /\ Constructed
    /\ Apply("get_cluster_centers", 0, get_cluster_centers(self, tables))

GetLabels ==
    /\ Constructed
    /\ Apply("get_labels", 0, get_labels(self, tables))

Components == {NoKw} \cup 0..MaxComponents

KMeansSpecialComponents ==
    /\ self.cls = "KMeans"
    /\ \E n \in Components :
          Apply("special_components", n,
                KMeansClustering_special_components(self, tables, n))

DBSCANSpecialComponents ==
    /\ self.cls = "DBSCAN"
    /\ \E n \in Components :
          Apply("special_components", n,
                DBSCANClustering_special_components(self, tables, n))

Next ==
    \/ Construct
    \/ ConstructPlaceholder
    \/ Fit
    \/ GetClusterCenters
    \/ GetLabels
    \/ KMeansSpecialComponents
    \/ DBSCANSpecialComponents

Spec == Init /\ [][Next]_vars

\* construction alone, over every choice of constructor arguments
NextCtor == ConstructAny \/ ConstructPlaceholder

SpecCtor == Init /\ [][NextCtor]_vars

-----------------------------------------------------------------------------
(* Vocabulary of the properties *)

\* the table self.X names now
StoredTable == IF self.X = NoX THEN NoTable ELSE tables[self.X]

\* the last call was op, on an instance of an implemented class
Called(op) == self.cls \in Implemented /\ last.op = op

Returned == last.outcome = "returned"

\* as the last call started, a fit had succeeded on the estimator
WasFitted == "labels_" \in last.pre.model.attrs

\* as the last call started, the stored table carried the labels column
WasLabelled == HasColumn(last.pre.table, ClusteringResult)

Positions(fns) == {i \in 1..Len(trace) : trace[i].fn \in fns}

Count(fns) == Cardinality(Positions(fns))

ScatterFns == {"scatter2d", "scatter3d"}
ScoreFns == {"calinski_harabasz_score", "silhouette_score"}

-----------------------------------------------------------------------------
(* C1: get_labels and the stored feature table *)

\* C1 as stated: on an instance on which a fit has succeeded, every call of
\* get_labels() keeps the row count, adds exactly one new column, named
\* "clustering result" and holding the estimator's labels, and leaves the
\* other columns as they were. (Stated here of the calls that return.)
C1_EveryCallAddsOneColumn ==
    (Called("get_labels") /\ WasFitted /\ Returned) =>
        /\ StoredTable.rows = last.pre.table.rows
        /\ Len(StoredTable.cols) = Len(last.pre.table.cols) + 1
        /\ StoredTable.cols =
              Append(last.pre.table.cols,
                     Column(ClusteringResult, self.model.labels_))

\* C1 amended: on an instance on which a fit has succeeded, a call of
\* get_labels() that returns keeps the row count, leaves every other column
\* as it was, and leaves the stored table with exactly one column named
\* "clustering result", holding the estimator's labels; the column is a new,
\* last one only when the table had none, and is overwritten in place
\* otherwise. The call returns unless the stored table's row count differs
\* from the number of labels, and then it raises and changes nothing.
C1_GetLabelsSetsTheColumn ==
    (Called("get_labels") /\ WasFitted) =>
        LET before == last.pre.table
            after == StoredTable
            named == {i \in 1..Len(after.cols) :
                         after.cols[i].name = ClusteringResult}
        IN /\ self.X = last.pre.X
           /\ Returned <=> Len(self.model.labels_) = before.rows
           /\ ~Returned => after = before /\ trace = <<>>
           /\ Returned =>
                /\ after.rows = before.rows
                /\ Cardinality(named) = 1
                /\ ColumnOf(after, ClusteringResult) = self.model.labels_
                /\ OtherColumns(after, ClusteringResult)
                      = OtherColumns(before, ClusteringResult)
                /\ Len(after.cols) = Len(before.cols)
                      + (IF HasColumn(before, ClusteringResult) THEN 0 ELSE 1)
                /\ HasColumn(before, ClusteringResult) =>
                      ColNames(after) = ColNames(before)
                /\ ~HasColumn(before, ClusteringResult) =>
                      after.cols[Len(after.cols)].name = ClusteringResult

\* a second get_labels() has overwritten the column with other labels
C1_Witness ==
    /\ Called("get_labels") /\ WasFitted /\ Returned
    /\ WasLabelled
    /\ ColumnOf(last.pre.table, ClusteringResult) # self.model.labels_

-----------------------------------------------------------------------------
(* C2: the scatter plot KMeansClustering.special_components chooses *)

\* the last call was KMeansClustering.special_components(components_num=n),
\* made in the documented order: the estimator fitted and the stored table
\* carrying the labels column
KMeansInOrder ==
    /\ Called("special_components") /\ self.cls = "KMeans"
    /\ WasFitted /\ WasLabelled
    /\ last.arg # NoKw

\* C2: after fit and get_labels, special_components(components_num=n) makes
\* exactly one scatter call, the 2D one, when n = 2; exactly one, the 3D one,
\* when n >= 3; and none for any other n. In every case the two scores and
\* the silhouette diagram come before it.
C2_ScatterByComponentsNum ==
    KMeansInOrder =>
        /\ Returned
        /\ last.arg = 2 =>
              Count(ScatterFns) = 1 /\ Count({"scatter2d"}) = 1
        /\ last.arg >= 3 =>
              Count(ScatterFns) = 1 /\ Count({"scatter3d"}) = 1
        /\ last.arg < 2 =>
              Count(ScatterFns) = 0
        /\ Len(trace) >= 4
        /\ trace[1].fn = "calinski_harabasz_score"
        /\ trace[2].fn = "silhouette_score"
        /\ trace[3].fn = "plot_silhouette_diagram"
        /\ trace[4].fn = "save_fig"
        /\ \A i \in Positions(ScatterFns) : i > 4
        /\ Count(ScoreFns) = 2 /\ Count({"plot_silhouette_diagram"}) = 1

\* special_components(components_num=4) has taken the 3D branch
C2_Witness ==
    KMeansInOrder /\ Returned /\ last.arg > 3 /\ Count({"scatter3d"}) = 1

-----------------------------------------------------------------------------
(* C3: fit on a placeholder class *)

\* C3: on an instance of any of the eight placeholder classes, fit(X) ends
\* in an attribute-not-found error, no estimator being assigned; it never
\* returns.
C3_PlaceholderFitRaises ==
    (self.cls \in Placeholders /\ last.op = "fit") =>
        /\ last.outcome = "AttributeError"
        /\ last.by \in {"instance", "NoneType"}
        /\ self.model.attrs = {}

\* fit(X) has been called on a placeholder instance, and X was stored
C3_Witness ==
    /\ self.cls \in Placeholders /\ last.op = "fit"
    /\ last.pre.X = NoX /\ self.X # NoX

-----------------------------------------------------------------------------
(* C4: get_cluster_centers *)

\* C4: on an instance that has an estimator, get_cluster_centers() never
\* raises: it returns the estimator's cluster_centers_ when the estimator
\* has that attribute and the placeholder string otherwise; for
\* DBSCANClustering it is the placeholder string in every state; the stored
\* table and the estimator are left as they were.
C4_GetClusterCentersNeverRaises ==
    Called("get_cluster_centers") =>
        /\ Returned
        /\ "cluster_centers_" \in last.pre.model.attrs =>
              last.value = "cluster_centers_"
        /\ "cluster_centers_" \notin last.pre.model.attrs =>
              last.value = NoCenters
        /\ self.cls = "DBSCAN" => last.value = NoCenters
        /\ self.model = last.pre.model
        /\ self.X = last.pre.X
        /\ StoredTable = last.pre.table
        /\ trace = <<>>

\* DBSCANClustering, fitted and labelled, has been asked for its centers
C4_Witness ==
    /\ Called("get_cluster_centers") /\ self.cls = "DBSCAN"
    /\ WasFitted /\ WasLabelled
    /\ last.value = NoCenters

-----------------------------------------------------------------------------
(* C5, C6: what the constructors hand to the estimator *)

HardcodedAP == {"preference", "affinity", "verbose", "random_state"}
ForwardedAP == {"damping", "max_iter", "convergence_iter", "copy"}

\* C5: whatever the caller passes to AffinityPropagationClustering for
\* preference, affinity, verbose and random_state, the estimator is built
\* with None, "euclidean", False and None, and the caller's values are only
\* stored on the instance; damping, max_iter, convergence_iter and copy
\* reach the estimator as supplied.
C5_AffinityPropagationHardcodes ==
    self.cls = "AffinityPropagation" =>
        /\ self.model.built.preference = "None"
        /\ self.model.built.affinity = "euclidean"
        /\ self.model.built.verbose = "False"
        /\ self.model.built.random_state = "None"
        /\ \A p \in HardcodedAP \cup ForwardedAP : self.hp[p] = args[p]
        /\ \A p \in ForwardedAP : self.model.built[p] = args[p]
        /\ DOMAIN self.model.built = HardcodedAP \cup ForwardedAP

\* the caller overrode all four, and none of the four reached the estimator
C5_Witness ==
    /\ self.cls = "AffinityPropagation"
    /\ \A p \in HardcodedAP :
          /\ args[p] = Custom("AffinityPropagation")[p]
          /\ self.model.built[p] # args[p]
    /\ \A p \in ForwardedAP : args[p] = Custom("AffinityPropagation")[p]

\* C6: for every implemented class and every choice of constructor
\* arguments, each hyperparameter the estimator is built with equals the
\* value the caller supplied and the value stored on the instance.
C6_EveryHyperparameterForwarded ==
    self.cls \in Implemented =>
        \A p \in DOMAIN args :
            /\ self.hp[p] = args[p]
            /\ self.model.built[p] = args[p]

-----------------------------------------------------------------------------
(* C7: calls made out of the documented order *)

\* the last call came before any successful fit, or was a special_components
\* on a stored table that get_labels has not labelled
OutOfOrder ==
    \/ /\ last.op \in {"get_labels", "get_cluster_centers", "special_components"}
       /\ ~WasFitted
    \/ /\ last.op = "special_components"
       /\ ~WasLabelled

-----------------------------------------------------------------------------
(* C8: the table the KMeans scores are computed on *)

\* C8: in the order fit, get_labels, special_components on a table that had
\* no labels column when it was fitted, both scores are computed on the
\* feature table as it was passed to fit, without the "clustering result"
\* column, and on the fitted labels.
C8_ScoresOnOriginalTable ==
    (/\ Called("special_components") /\ self.cls = "KMeans"
     /\ WasFitted /\ WasLabelled /\ Returned
     /\ ColNames(last.pre.table)
           = Append(self.model.fit_cols, ClusteringResult)) =>
        \A i \in Positions(ScoreFns) :
            /\ trace[i].cols = self.model.fit_cols
            /\ trace[i].labels = self.model.labels_

-----------------------------------------------------------------------------
(* C9: what the constructor set stays as it was set *)

\* what the constructor leaves on an instance of class c called with a
Fresh(c, a) ==
    IF c \in Implemented THEN New(c, a)
    ELSE ClusteringWorkflowBase_init(c, self.model.kind)

\* C9: after any sequence of fit, get_cluster_centers, get_labels and
\* special_components calls, failed ones included, every hyperparameter
\* stored on the instance and its algorithm name have the values the
\* constructor set, and the instance holds the estimator object it was
\* constructed with, built with what the constructor gave it.
C9_HyperparametersImmutable ==
    Constructed =>
        /\ self.hp = Fresh(self.cls, args).hp
        /\ self.naming = Fresh(self.cls, args).naming
        /\ self.cls \in Implemented => self.naming = self.cls
        /\ self.model.id = Fresh(self.cls, args).model.id
        /\ self.model.kind = Fresh(self.cls, args).model.kind
        /\ self.model.built = Fresh(self.cls, args).model.built

\* a KMeansClustering built with custom values has been fitted and labelled,
\* and its last special_components call failed for want of components_num
C9_Witness ==
    /\ self.cls = "KMeans" /\ args = Custom("KMeans")
    /\ Called("special_components") /\ WasFitted /\ WasLabelled
    /\ last.outcome = "KeyError" /\ last.by = "kwargs"

-----------------------------------------------------------------------------
(* C10: the figures special_components saves *)

SavedTitles ==
    [i \in 1..Count({"save_fig"}) |->
        LET at == CHOOSE j \in Positions({"save_fig"}) :
                      Cardinality({k \in Positions({"save_fig"}) : k <= j}) = i
        IN trace[at].args[1]]

\* C10: a KMeansClustering.special_components call that returns saves
\* exactly two figures, the silhouette diagram and then the bi-plot, when
\* components_num = 2, and exactly one, the silhouette diagram, for any other
\* components_num; the 3D branch calls scatter3d with no data and saves
\* nothing. A DBSCANClustering.special_components call that returns saves
\* exactly one figure, whatever the keyword arguments.
C10_FiguresSaved ==
    (Called("special_components") /\ Returned) =>
        /\ (self.cls = "KMeans" /\ last.arg = 2) =>
              SavedTitles = <<"Silhouette Diagram - ", "Bi-plot - ">>
        /\ (self.cls = "KMeans" /\ last.arg # 2) =>
              SavedTitles = <<"Silhouette Diagram - ">>
        /\ (self.cls = "KMeans" /\ last.arg >= 3) =>
              /\ trace[Len(trace)] = Call("scatter3d", <<>>, <<>>, <<>>)
              /\ Count({"scatter3d"}) = 1
        /\ self.cls = "DBSCAN" => SavedTitles = <<"Plot - ">>

\* KMeansClustering.special_components(components_num=3) has returned
C10_Witness ==
    /\ Called("special_components") /\ Returned
    /\ self.cls = "KMeans" /\ last.arg = 3
    /\ Count({"scatter3d"}) = 1

====
